---- MODULE Spec2Model ----
(***************************************************************************)
(* A model of coub-dl.go: ReadCoub (the catalog driver and its pool of     *)
(* download goroutines), GetNonRecoubs, CreateCoubInfoFiles,               *)
(* DownloadCoubData (the three-branch fan-out/fan-in) and the three asset  *)
(* group downloaders.                                                      *)
(*                                                                         *)
(* Go strings are sequences of pieces (TLA+ strings); concatenation is \o. *)
(* The piece "\n" is a newline, "/" a path separator, " " a blank.         *)
(*                                                                         *)
(* The specifications share the state and the driver's actions:            *)
(*   Spec      catalogs of up to MaxClips records; every call of           *)
(*             DownloadCoubData is one action (handler granularity);       *)
(*   ClipSpec  catalogs of one clip; DownloadCoubData runs statement by    *)
(*             statement, its three goroutines interleaved;                *)
(*   GroupsSpec  ClipSpec on the clips without tags.                       *)
(***************************************************************************)
EXTENDS Integers, Sequences, FiniteSets, TLC

\* ------------------------------------------------------------ bounds
MaxClips == 6          \* catalog records in Spec
MaxMalformed == 2      \* records of a catalog file that is missing or malformed
MaxVersions == 2       \* versions of an image/frame rendition set in ClipSpec
MaxTags == 2           \* tags of a clip

\* ------------------------------------------------------------ program constants
BarrierEvery == 5      \* i%5 == 0
DownloadInterval == 100   \* time.Millisecond * 100
Second == 1000            \* time.Second, in milliseconds

\* ------------------------------------------------------------ strings
NL == <<"\n">>
Slash == <<"/">>
Placeholder == "%{version}"
RecoubType == "Coub::Recoub"

IsSpace(p) == p \in {" ", "\t", "\n"}

RECURSIVE TrimLeft(_)
TrimLeft(s) ==
  IF s = <<>> THEN s
  ELSE IF IsSpace(Head(s)) THEN TrimLeft(Tail(s)) ELSE s

RECURSIVE TrimRight(_)
TrimRight(s) ==
  IF s = <<>> THEN s
  ELSE IF IsSpace(s[Len(s)]) THEN TrimRight(SubSeq(s, 1, Len(s) - 1)) ELSE s

\* strings.TrimSpace
TrimSpace(s) == TrimRight(TrimLeft(s))

\* strconv.Itoa
Itoa(n) == <<ToString(n)>>

\* fmt.Sprintf("%.2f", d), d held in thousandths (12345 is 12.345)
Sprintf2f(d) ==
  LET h == (d + 5) \div 10
      frac == h % 100
  IN <<ToString(h \div 100), ".", IF frac < 10 THEN "0" \o ToString(frac) ELSE ToString(frac)>>

\* strings.Replace(template, "%{version}", version, -1)
ReplaceVersion(template, version) ==
  [k \in 1..Len(template) |-> IF template[k] = Placeholder THEN version ELSE template[k]]

RECURSIVE LastSlash(_, _)
LastSlash(url, k) ==
  IF k = 0 THEN 0 ELSE IF url[k] = "/" THEN k ELSE LastSlash(url, k - 1)

\* FileNameFromURL: the last path segment of the URL
FileNameFromURL(url) == SubSeq(url, LastSlash(url, Len(url)) + 1, Len(url))

\* ------------------------------------------------------------ clip records
VersionNames == <<"000", "100", "200", "300">>
TagNames == <<<<"funny">>, <<"cat">>, <<"loop">>, <<"x">>>>

\* A record of the catalog file is written down by its shape:
\* [Type, Title, nTags, nImage, nFrame].  CoubOf is the Coub struct decoded
\* from the record at position id of the file, by the fields coub-dl.go
\* reads.  The URLs carry the record's ID, as the CDN's file names do; the
\* "higher" video rendition is absent (an empty URL).
CoubOf(shape, id) ==
  LET n == ToString(id)
  IN [ID |-> id, Type |-> shape.Type, Title |-> shape.Title,
      CreatedAt |-> <<"2020-01-02 03:04:05 +0000 UTC">>,
      Duration |-> 12345, ViewsCount |-> 10, RecoubsCount |-> 2,
      ExternalDownload |-> <<"false">>,
      Tags |-> SubSeq(TagNames, 1, shape.nTags),
      ImageVersions |-> [Template |-> <<"img", "/", n, "/", Placeholder, "_i" \o n \o ".jpg">>,
                         Versions |-> SubSeq(VersionNames, 1, shape.nImage)],
      FirstFrameVersions |-> [Template |-> <<"img", "/", n, "/", Placeholder, "_f" \o n \o ".jpg">>,
                              Versions |-> SubSeq(VersionNames, 1, shape.nFrame)],
      FileVersions |->
        [VideoMed |-> <<"cdn", "/", n, "/", "med_" \o n \o ".mp4">>,
         VideoHigh |-> <<"cdn", "/", n, "/", "high_" \o n \o ".mp4">>,
         VideoHigher |-> <<>>,
         AudioHigh |-> <<"cdn", "/", n, "/", "high_" \o n \o ".mp3">>,
         AudioMed |-> <<"cdn", "/", n, "/", "med_" \o n \o ".mp3">>,
         ShareDefault |-> <<"cdn", "/", n, "/", "share_" \o n \o ".mp4">>]]

Shape(type, title, nTags, nImage, nFrame) ==
  [Type |-> type, Title |-> title, nTags |-> nTags, nImage |-> nImage, nFrame |-> nFrame]

\* The records of Spec's catalogs: a repost, a clip whose title needs
\* trimming, a clip with tags.
CoubShapes ==
  { Shape(RecoubType, <<"r">>, 0, 0, 0),
    Shape("Coub::Simple", <<" ", "a", " ">>, 0, 0, 1),
    Shape("Coub::Temp", <<"a">>, MaxTags, 1, 0) }

CatalogsUpTo(n) == UNION {[1..m -> CoubShapes] : m \in 0..n}

\* ClipSpec's catalogs: one clip, every length of tag list and version lists.
SingleClipCatalogs ==
  {<<Shape("Coub::Simple", <<" ", "a">>, nt, ni, nf)>> :
     nt \in 0..MaxTags, ni \in 0..MaxVersions, nf \in 0..MaxVersions}

\* the content of the catalog file as Coub structs
Decoded(shapes) == [id \in 1..Len(shapes) |-> CoubOf(shapes[id], id)]

\* ------------------------------------------------------------ GetNonRecoubs
RECURSIVE FilterLoop(_, _, _)
FilterLoop(tmpCoubs, k, coubs) ==
  IF k > Len(tmpCoubs) THEN coubs
  ELSE FilterLoop(tmpCoubs, k + 1,
                  IF tmpCoubs[k].Type # RecoubType THEN Append(coubs, tmpCoubs[k]) ELSE coubs)

\* json.NewDecoder(f).Decode(&tmpCoubs): what the decoder leaves in tmpCoubs.
\* A syntax error is found before anything is stored; a value of the wrong
\* type for a field is reported after the rest of the array was stored.
Decode(file, content) ==
  CASE file = "ok" -> [tmpCoubs |-> content, err |-> "nil"]
    [] file = "syntax" -> [tmpCoubs |-> <<>>, err |-> "SyntaxError"]
    [] file = "type" -> [tmpCoubs |-> content, err |-> "UnmarshalTypeError"]

\* a filter loop that stops at the first repost instead of skipping it
RECURSIVE FilterLoopBreak(_, _, _)
FilterLoopBreak(tmpCoubs, k, coubs) ==
  IF k > Len(tmpCoubs) \/ tmpCoubs[k].Type = RecoubType THEN coubs
  ELSE FilterLoopBreak(tmpCoubs, k + 1, Append(coubs, tmpCoubs[k]))

GetNonRecoubs_StopsAtRecoub(file, content) ==
  IF file = "missing" THEN [coubs |-> <<>>, err |-> "ErrNotExist"]
  ELSE [coubs |-> FilterLoopBreak(Decode(file, content).tmpCoubs, 1, <<>>), err |-> "nil"]

\* os.Open fails on a missing file; the error Decode returns is assigned
\* and never tested.
GetNonRecoubs(file, content) ==
  IF file = "missing" THEN [coubs |-> <<>>, err |-> "ErrNotExist"]
  ELSE [coubs |-> FilterLoop(Decode(file, content).tmpCoubs, 1, <<>>), err |-> "nil"]


\* ------------------------------------------------------------ CreateCoubDir
RootDir == <<"root">>

\* CreateCoubDir(rootdir, coub): the clip's directory, named from its title;
\* creating a directory that exists succeeds.  ok is the file system's answer.
CreateCoubDir(rootdir, coub, ok) ==
  [outdir |-> IF ok THEN rootdir \o Slash \o coub.Title ELSE <<>>,
   err |-> IF ok THEN "nil" ELSE "MkdirError"]

\* ------------------------------------------------------------ CreateCoubInfoFiles
\* The I/O operations of CreateCoubInfoFiles, numbered in program order:
\* 1 ioutil.WriteFile(metadata.json), 2 os.Create(info.txt), 3..7 the five
\* checked WriteString calls, 8 "Source: ", 9 "Tags: ", 9+j the j-th tag,
\* CloseOp infoFile.Close().
CloseOp == 10 + MaxTags

\* What the file system does during one call: no failure (first = 0), or
\* operation number first fails, alone or with every operation after it.
IOScenarios == [first : 0..CloseOp, sticky : BOOLEAN]

OpFails(sc, op) == sc.first # 0 /\ (op = sc.first \/ (sc.sticky /\ op > sc.first))

\* The WriteString calls in program order; checked says whether the code
\* tests the call's error before the next statement overwrites it.
InfoWrites(coub) ==
  << [op |-> 3, text |-> <<"Title: ">> \o coub.Title \o NL, checked |-> TRUE],
     [op |-> 4, text |-> <<"Created At: ">> \o coub.CreatedAt \o NL, checked |-> TRUE],
     [op |-> 5, text |-> <<"Duration: ">> \o Sprintf2f(coub.Duration) \o NL, checked |-> TRUE],
     [op |-> 6, text |-> <<"Views: ">> \o Itoa(coub.ViewsCount) \o NL, checked |-> TRUE],
     [op |-> 7, text |-> <<"Recoubs: ">> \o Itoa(coub.RecoubsCount) \o NL, checked |-> TRUE],
     [op |-> 8, text |-> <<"Source: ">> \o coub.ExternalDownload \o NL, checked |-> FALSE],
     [op |-> 9, text |-> <<"Tags: ">>, checked |-> FALSE] >>
  \o [j \in 1..Len(coub.Tags) |->
        [op |-> 9 + j,
         text |-> coub.Tags[j] \o (IF j = Len(coub.Tags) THEN NL ELSE <<", ">>),
         checked |-> TRUE]]

\* st = [txt, failed, err, returned]: the file so far, whether an operation
\* has failed, the err variable, whether the function has returned.
RECURSIVE WriteAll(_, _, _, _, _)
WriteAll(ws, k, sc, fileNil, st) ==
  IF k > Len(ws) THEN st
  ELSE LET bad == fileNil \/ OpFails(sc, ws[k].op)
           st2 == [txt |-> IF bad THEN st.txt ELSE st.txt \o ws[k].text,
                   failed |-> st.failed \/ bad,
                   err |-> IF bad THEN "WriteError" ELSE "nil",
                   returned |-> bad /\ ws[k].checked]
       IN IF st2.returned THEN st2 ELSE WriteAll(ws, k + 1, sc, fileNil, st2)

\* [err, txt, failed]: the value returned, the content of info.txt, whether
\* an I/O operation of the call failed.  A failed os.Create is only printed:
\* infoFile is then nil and every later operation on it fails.
CreateCoubInfoFiles(dir, coub, sc) ==
  IF OpFails(sc, 1) THEN [err |-> "WriteFileError", txt |-> <<>>, failed |-> TRUE]
  ELSE LET fileNil == OpFails(sc, 2)
           w == WriteAll(InfoWrites(coub), 1, sc, fileNil,
                         [txt |-> <<>>, failed |-> fileNil, err |-> "nil", returned |-> FALSE])
           closeBad == fileNil \/ OpFails(sc, CloseOp)
       IN IF w.returned THEN [err |-> w.err, txt |-> w.txt, failed |-> TRUE]
          ELSE [err |-> IF closeBad THEN "CloseError" ELSE "nil",
                txt |-> w.txt, failed |-> w.failed \/ closeBad]

\* ------------------------------------------------------------ asset groups
Groups == {"frame", "image", "file"}

\* The DownloadFile calls of DownloadFileVersions in program order, with
\* whether time.Sleep(DownloadInterval) follows the call.
DownloadFileVersionsPlan(filepath, coub) ==
  LET fv == coub.FileVersions
      byURL(url, sleep) ==
        [path |-> filepath \o Slash \o FileNameFromURL(url), url |-> url, sleep |-> sleep]
  IN << byURL(fv.VideoMed, TRUE), byURL(fv.VideoHigh, TRUE), byURL(fv.VideoHigher, TRUE),
        byURL(fv.AudioHigh, TRUE), byURL(fv.AudioMed, TRUE),
        byURL(fv.ShareDefault, FALSE),
        [path |-> filepath \o Slash \o coub.Title \o <<".mp4">>,
         url |-> fv.ShareDefault, sleep |-> FALSE] >>

\* The DownloadFile calls of DownloadImageVersions / DownloadFirstFrameVersions
\* when no fetch fails; time.Sleep(time.Second) follows each successful one.
DownloadVersionsPlan(filepath, set) ==
  [k \in 1..Len(set.Versions) |->
     LET url == ReplaceVersion(set.Template, set.Versions[k])
     IN [path |-> filepath \o Slash \o FileNameFromURL(url), url |-> url, sleep |-> TRUE]]

GroupPlan(b, filepath, coub) ==
  CASE b = "file" -> DownloadFileVersionsPlan(filepath, coub)
    [] b = "image" -> DownloadVersionsPlan(filepath, coub.ImageVersions)
    [] b = "frame" -> DownloadVersionsPlan(filepath, coub.FirstFrameVersions)

GroupErr(b) == CASE b = "frame" -> "errFrame" [] b = "image" -> "errImage" [] b = "file" -> "nil"

\* A whole run of DownloadImageVersions / DownloadFirstFrameVersions whose
\* failAt-th fetch is the first to fail (0: none fails).
DownloadVersions(b, filepath, coub, failAt) ==
  LET plan == GroupPlan(b, filepath, coub)
  IN [attempted |-> IF failAt = 0 THEN plan ELSE SubSeq(plan, 1, failAt),
      err |-> IF failAt = 0 THEN "nil" ELSE GroupErr(b)]


\* ------------------------------------------------------------ state
VARIABLES
  file,       \* the catalog file: "ok", "missing", "syntax", "type" (malformed)
  records,    \* the records of the catalog file, by shape
  coubs,      \* ReadCoub's coubs, each record by its ID
  mainPc,     \* ReadCoub: "load", "prepare", "submit", "barrier", "finalwait", "returned"
  i,          \* ReadCoub's loop index (from 0)
  result,     \* ReadCoub's returned error, "none" before it returns
  outdir,     \* the loop iteration's outdir
  dirs,       \* the clip directories that exist
  info,       \* the content of the info.txt written last
  lastPrep,   \* the last preparation: [pos, ioFailed, err]
  prepared,   \* IDs of the records CreateCoubDir was called for, in call order
  poolWG,     \* ReadCoub's wg counter
  task,       \* per position of coubs: "none", "spawned", "done"
  taskDir,    \* per position of coubs: the outdir its goroutine captured
  fetched,    \* per position of coubs and group: DownloadFile calls made
  panicked,   \* the process died of a run-time panic
  dcPc,       \* ClipSpec, DownloadCoubData: "idle", "wait", "returned"
  wg,         \* DownloadCoubData's wg counter
  err,        \* DownloadCoubData's named result, shared by its three goroutines
  brPc,       \* per branch: "idle", "run", "ret", "chk", "use", "end"
  brRet,      \* per branch: the value its group function returned
  brSeen,     \* per branch: the value of err its test read
  trace,      \* per branch: its group's fetches and sleeps, in order
  allFailed,  \* per branch: no fetch of its group has succeeded
  logged      \* per branch: the error its goroutine logged, "nil" if none

mainVars == <<file, records, coubs, mainPc, i, result, outdir, dirs, info, lastPrep, prepared>>
poolVars == <<poolWG, task, taskDir, fetched, panicked>>
clipVars == <<dcPc, wg, err, brPc, brRet, brSeen, trace, allFailed, logged>>
vars == <<mainVars, poolVars, clipVars>>

\* coubs[c] of the Go code (c from 1)
CoubAt(c) == CoubOf(records[coubs[c]], coubs[c])

NoFetches == [b \in Groups |-> 0]

\* <<path, ID>>: a download task of record ID called DownloadFile for path
\* with a URL to fetch from (an empty URL has nothing to fetch or write)
Written ==
  {<<GroupPlan(t[2], taskDir[t[1]], CoubAt(t[1]))[t[3]].path, coubs[t[1]]>> :
     t \in {u \in (1..Len(coubs)) \X Groups \X (1..7 + MaxVersions) :
              /\ u[3] <= fetched[u[1]][u[2]]
              /\ GroupPlan(u[2], taskDir[u[1]], CoubAt(u[1]))[u[3]].url # <<>>}}

InitWith(inputs) ==
  /\ \E input \in inputs :
       /\ file = input[1]
       /\ records = input[2]
  /\ coubs = <<>>
  /\ mainPc = "load"
  /\ i = 0
  /\ result = "none"
  /\ outdir = <<>>
  /\ dirs = {}
  /\ info = <<>>
  /\ lastPrep = [pos |-> 0, ioFailed |-> FALSE, err |-> "nil"]
  /\ prepared = <<>>
  /\ poolWG = 0
  /\ task = <<>>
  /\ taskDir = <<>>
  /\ fetched = <<>>
  /\ panicked = FALSE
  /\ dcPc = "idle"
  /\ wg = 0
  /\ err = "nil"
  /\ brPc = [b \in Groups |-> "idle"]
  /\ brRet = [b \in Groups |-> "nil"]
  /\ brSeen = [b \in Groups |-> "nil"]
  /\ trace = [b \in Groups |-> <<>>]
  /\ allFailed = [b \in Groups |-> TRUE]
  /\ logged = [b \in Groups |-> "nil"]

Init ==
  InitWith(({"ok"} \X CatalogsUpTo(MaxClips))
             \cup ({"missing", "syntax", "type"} \X CatalogsUpTo(MaxMalformed)))

ClipInit == InitWith({"ok"} \X SingleClipCatalogs)

\* ------------------------------------------------------------ ReadCoub
\* a loop that never waits
BarrierDue_Never(idx) == FALSE

\* if i%5 == 0 { wg.Wait() }
BarrierDue(idx) == idx % BarrierEvery = 0

\* a Wait that does not block
WaitReturns_AtOnce(counter) == TRUE

\* wg.Wait() returns
WaitReturns(counter) == counter = 0

\* the end of a loop iteration: the next record, or the statements after the loop
NextIteration ==
  IF i + 1 < Len(coubs)
  THEN /\ i' = i + 1
       /\ mainPc' = "prepare"
  ELSE /\ i' = i
       /\ mainPc' = "finalwait"

LoadCatalog ==
  /\ mainPc = "load" /\ ~panicked
  /\ LET r == GetNonRecoubs(file, Decoded(records))
         n == Len(r.coubs)
     IN IF r.err # "nil"
        THEN /\ mainPc' = "returned"
             /\ result' = r.err
             /\ UNCHANGED <<coubs, task, taskDir, fetched>>
        ELSE /\ coubs' = [c \in 1..n |-> r.coubs[c].ID]
             /\ task' = [c \in 1..n |-> "none"]
             /\ taskDir' = [c \in 1..n |-> <<>>]
             /\ fetched' = [c \in 1..n |-> NoFetches]
             /\ mainPc' = IF n = 0 THEN "finalwait" ELSE "prepare"
             /\ result' = result
  /\ UNCHANGED <<file, records, i, outdir, dirs, info, lastPrep, prepared,
                 poolWG, panicked, clipVars>>

\* coub.Title = strings.TrimSpace(coub.Title); CreateCoubDir; CreateCoubInfoFiles
Prepare ==
  /\ mainPc = "prepare" /\ ~panicked
  /\ LET coub == [CoubAt(i + 1) EXCEPT !.Title = TrimSpace(@)]
     IN /\ prepared' = Append(prepared, coub.ID)
        /\ \E dirOk \in BOOLEAN :
             LET d == CreateCoubDir(RootDir, coub, dirOk)
             IN IF d.err # "nil"
                THEN /\ mainPc' = "returned"
                     /\ result' = d.err
                     /\ lastPrep' = [pos |-> i + 1, ioFailed |-> TRUE, err |-> d.err]
                     /\ UNCHANGED <<outdir, dirs, info>>
                ELSE \E f \in {CreateCoubInfoFiles(d.outdir, coub, sc) : sc \in IOScenarios} :
                          /\ outdir' = d.outdir
                          /\ dirs' = dirs \cup {d.outdir}
                          /\ info' = f.txt
                          /\ lastPrep' = [pos |-> i + 1, ioFailed |-> f.failed, err |-> f.err]
                          /\ IF f.err # "nil"
                             THEN /\ mainPc' = "returned"
                                  /\ result' = f.err
                             ELSE /\ mainPc' = "submit"
                                  /\ result' = result
  /\ UNCHANGED <<file, records, coubs, i, poolVars, clipVars>>

\* wg.Add(1); go func(coubID int) {...}(i); time.Sleep(time.Second); if i%5 == 0
Submit ==
  /\ mainPc = "submit" /\ ~panicked
  /\ poolWG' = poolWG + 1
  /\ task' = [task EXCEPT ![i + 1] = "spawned"]
  /\ taskDir' = [taskDir EXCEPT ![i + 1] = outdir]
  /\ IF BarrierDue(i)
     THEN /\ mainPc' = "barrier"
          /\ i' = i
     ELSE NextIteration
  /\ UNCHANGED <<file, records, coubs, result, outdir, dirs, info, lastPrep, prepared,
                 fetched, panicked, clipVars>>

\* the wg.Wait() inside the loop
Barrier ==
  /\ mainPc = "barrier" /\ ~panicked
  /\ WaitReturns(poolWG)
  /\ NextIteration
  /\ UNCHANGED <<file, records, coubs, result, outdir, dirs, info, lastPrep, prepared,
                 poolVars, clipVars>>

\* wg.Wait(); log.Println("All found coubs downloaded"); return nil
FinalWait ==
  /\ mainPc = "finalwait" /\ ~panicked
  /\ WaitReturns(poolWG)
  /\ mainPc' = "returned"
  /\ result' = "nil"
  /\ UNCHANGED <<file, records, coubs, i, outdir, dirs, info, lastPrep, prepared,
                 poolVars, clipVars>>

\* ------------------------------------------------------------ DownloadCoubData, as one action
\* The goroutine of position c runs DownloadCoubData(&wg, outdir, coubs[c])
\* to its end.  failF and failI say which fetch of the frame and image groups
\* fails first (0: none).  A group's error makes its goroutine read err twice
\* (the test, then err.Error()) while its siblings write nil to err: when a
\* nil lands between the two reads the call err.Error() panics (crash).
DownloadCoubData(c) ==
  /\ c \in 1..Len(task)
  /\ task[c] = "spawned" /\ ~panicked
  /\ LET coub == CoubAt(c)
         files == DownloadFileVersionsPlan(taskDir[c], coub)
         Run(failF, failI, crash) ==
           LET frame == DownloadVersions("frame", taskDir[c], coub, failF)
               image == DownloadVersions("image", taskDir[c], coub, failI)
           IN IF crash
              THEN [crash |-> TRUE,
                    frame |-> IF frame.err # "nil" THEN Len(frame.attempted) ELSE 0,
                    image |-> IF image.err # "nil" THEN Len(image.attempted) ELSE 0,
                    file |-> 0]
              ELSE [crash |-> FALSE, frame |-> Len(frame.attempted),
                    image |-> Len(image.attempted), file |-> Len(files)]
         Outcomes ==
           {Run(failF, failI, FALSE) :
              failF \in 0..Len(coub.FirstFrameVersions.Versions),
              failI \in 0..Len(coub.ImageVersions.Versions)}
           \cup
           {Run(ff[1], ff[2], TRUE) :
              ff \in {p \in (0..Len(coub.FirstFrameVersions.Versions))
                                \X (0..Len(coub.ImageVersions.Versions)) :
                        p[1] # 0 \/ p[2] # 0}}
     IN \E out \in Outcomes :
          /\ panicked' = out.crash
          /\ fetched' = [fetched EXCEPT ![c] =
               [frame |-> out.frame, image |-> out.image, file |-> out.file]]
          /\ IF out.crash
             THEN UNCHANGED <<poolWG, task>>
             ELSE /\ poolWG' = poolWG - 1
                  /\ task' = [task EXCEPT ![c] = "done"]
  /\ UNCHANGED <<mainVars, taskDir, clipVars>>

Next ==
  \/ LoadCatalog
  \/ Prepare
  \/ Submit
  \/ Barrier
  \/ FinalWait
  \/ \E c \in 1..Len(task) : DownloadCoubData(c)

Spec == Init /\ [][Next]_vars


\* ------------------------------------------------------------ DownloadCoubData, statement by statement
\* ClipSpec's catalog holds one clip: the goroutine of position 1.
ThePlan(b) == GroupPlan(b, taskDir[1], CoubAt(1))

\* go func(coubID int) reaches DownloadCoubData: wg.Add(1); go func() three times
DCStart ==
  /\ Len(task) = 1 /\ task[1] = "spawned" /\ dcPc = "idle" /\ ~panicked
  /\ dcPc' = "wait"
  /\ wg' = 3
  /\ brPc' = [b \in Groups |-> "run"]
  /\ UNCHANGED <<mainVars, poolVars, err, brRet, brSeen, trace, allFailed, logged>>

\* a group function that returns at its first failed fetch
AbortsOnFailure_Always(b) == TRUE

\* a group function that goes on after a failed fetch
AbortsOnFailure_Never(b) == FALSE

\* if err != nil { return err } in DownloadImageVersions and
\* DownloadFirstFrameVersions; if err != nil { log.Println(...) } in
\* DownloadFileVersions
AbortsOnFailure(b) == b # "file"

\* A group's next DownloadFile call and the time.Sleep that follows it.
\* DownloadFileVersions logs a failure and goes on; the image and frame
\* groups return the error, and the deferred wg.Done() runs.  The trace
\* entry of an image or frame fetch carries the fetch's outcome.
Fetch(b) ==
  /\ brPc[b] = "run" /\ ~panicked
  /\ fetched[1][b] < Len(ThePlan(b))
  /\ \E ok \in BOOLEAN :
       LET k == fetched[1][b] + 1
           abort == AbortsOnFailure(b) /\ ~ok
           call == IF b = "file" THEN <<"fetch", k>> ELSE <<"fetch", k, ok>>
           slept == IF b = "file"
                    THEN (IF ThePlan(b)[k].sleep THEN <<<<"sleep", DownloadInterval>>>> ELSE <<>>)
                    ELSE (IF ok THEN <<<<"sleep", Second>>>> ELSE <<>>)
       IN /\ fetched' = [fetched EXCEPT ![1][b] = k]
          /\ allFailed' = [allFailed EXCEPT ![b] = @ /\ ~ok]
          /\ trace' = [trace EXCEPT ![b] = @ \o <<call>> \o slept]
          /\ IF abort
             THEN /\ brPc' = [brPc EXCEPT ![b] = "ret"]
                  /\ brRet' = [brRet EXCEPT ![b] = GroupErr(b)]
                  /\ wg' = wg - 1
             ELSE UNCHANGED <<brPc, brRet, wg>>
  /\ UNCHANGED <<mainVars, poolWG, task, taskDir, panicked, dcPc, err, brSeen, logged>>

\* return nil at the end of a group function; the deferred wg.Done() runs
GroupReturn(b) ==
  /\ brPc[b] = "run" /\ ~panicked
  /\ fetched[1][b] = Len(ThePlan(b))
  /\ brPc' = [brPc EXCEPT ![b] = "ret"]
  /\ brRet' = [brRet EXCEPT ![b] = "nil"]
  /\ wg' = wg - 1
  /\ UNCHANGED <<mainVars, poolVars, dcPc, err, brSeen, trace, allFailed, logged>>

\* err = Download...Versions(&wg, rootdir, coub): the branch stores its
\* group's result in the shared err
Assign(b) ==
  /\ brPc[b] = "ret" /\ ~panicked
  /\ err' = brRet[b]
  /\ brPc' = [brPc EXCEPT ![b] = "chk"]
  /\ UNCHANGED <<mainVars, poolVars, dcPc, wg, brRet, brSeen, trace, allFailed, logged>>

\* if err != nil
Check(b) ==
  /\ brPc[b] = "chk" /\ ~panicked
  /\ brSeen' = [brSeen EXCEPT ![b] = err]
  /\ brPc' = [brPc EXCEPT ![b] = IF err # "nil" THEN "use" ELSE "end"]
  /\ UNCHANGED <<mainVars, poolVars, dcPc, wg, err, brRet, trace, allFailed, logged>>

\* log.Println("Error Downloading ...: " + err.Error()).  err is read
\* without synchronisation: the build may read it again or use the value its
\* test read.  err.Error() on a nil error is a nil dereference: the process
\* panics.
Log(b) ==
  /\ brPc[b] = "use" /\ ~panicked
  /\ \E v \in {err, brSeen[b]} :
       IF v = "nil"
       THEN /\ panicked' = TRUE
            /\ UNCHANGED <<brPc, logged>>
       ELSE /\ logged' = [logged EXCEPT ![b] = v]
            /\ brPc' = [brPc EXCEPT ![b] = "end"]
            /\ panicked' = FALSE
  /\ UNCHANGED <<mainVars, poolWG, task, taskDir, fetched, dcPc, wg, err, brRet, brSeen,
                 trace, allFailed>>

\* wg.Wait(); log.Println("Finished Downloading Coub: ..."); return nil
\* (which stores nil in the named result err); the deferred PoolWG.Done()
DCReturn ==
  /\ dcPc = "wait" /\ ~panicked
  /\ WaitReturns(wg)
  /\ dcPc' = "returned"
  /\ err' = "nil"
  /\ poolWG' = poolWG - 1
  /\ task' = [task EXCEPT ![1] = "done"]
  /\ UNCHANGED <<mainVars, taskDir, fetched, panicked, wg, brPc, brRet, brSeen, trace,
                 allFailed, logged>>

ClipNext ==
  \/ LoadCatalog
  \/ Prepare
  \/ Submit
  \/ Barrier
  \/ FinalWait
  \/ DCStart
  \/ \E b \in Groups : Fetch(b)
  \/ \E b \in Groups : GroupReturn(b)
  \/ \E b \in Groups : Assign(b)
  \/ \E b \in Groups : Check(b)
  \/ \E b \in Groups : Log(b)
  \/ DCReturn

ClipSpec == ClipInit /\ [][ClipNext]_vars

\* ClipSpec on the catalogs of one clip without tags: every length of the
\* two version lists, which is what the asset groups read of a clip.
UntaggedClipCatalogs == {cat \in SingleClipCatalogs : cat[1].nTags = 0}

GroupsInit == InitWith({"ok"} \X UntaggedClipCatalogs)

GroupsSpec == GroupsInit /\ [][ClipNext]_vars


\* ------------------------------------------------------------ claims
InFlight == {c \in 1..Len(task) : task[c] = "spawned"}
IsPrefix(s, t) == Len(s) <= Len(t) /\ s = SubSeq(t, 1, Len(s))

\* C1: when the catalog loads and no preparation fails, the run neither
\* crashes nor stops before ReadCoub returns, and ReadCoub returns nil,
\* whatever the fetches of the asset groups do.
C1_DownloadFailuresNeverHaltTheRun ==
  (file = "ok" /\ ~lastPrep.ioFailed) =>
    /\ ~panicked
    /\ mainPc # "returned" => ENABLED ClipNext
    /\ mainPc = "returned" => result = "nil"

\* C2: a group makes the fetches its own outcomes call for, whatever the
\* other groups do: a group that still has fetches to make is never stopped,
\* and a group that returned made every fetch up to its own first failure.
C2_GroupsAreIndependent ==
  \A b \in Groups :
    /\ brPc[b] = "run" => ~panicked
    /\ (brPc[b] \notin {"idle", "run"} /\ brRet[b] = "nil") => fetched[1][b] = Len(ThePlan(b))
    /\ (brPc[b] \notin {"idle", "run"} /\ brRet[b] # "nil") => fetched[1][b] >= 1

\* C3: a preparation in which directory creation or a write of the metadata
\* files failed makes ReadCoub return that error at once: the clip is not
\* submitted and no later clip is prepared.
C3_PreparationFailureIsFatal ==
  lastPrep.ioFailed =>
    /\ mainPc = "returned"
    /\ result = lastPrep.err
    /\ result \notin {"nil", "none"}
    /\ task[lastPrep.pos] = "none"
    /\ Len(prepared) = lastPrep.pos

\* C4: with a missing or malformed catalog file the run ends with an error,
\* and no directory is created and no download submitted.
C4_BadCatalogIsFatal ==
  file # "ok" =>
    /\ mainPc \in {"load", "returned"}
    /\ mainPc = "returned" => result \notin {"nil", "none"}
    /\ dirs = {}
    /\ \A c \in 1..Len(task) : task[c] = "none"

\* C5: the clips GetNonRecoubs returns are the catalog's records that are not
\* reposts, each once and in catalog order; ReadCoub prepares and submits
\* them in that order, no repost is prepared or downloaded, and a run that
\* ends with nil has prepared and downloaded every one of them.
C5_RepostsFilteredOrderKept ==
  (file = "ok" /\ mainPc # "load") =>
    /\ \A c \in 1..Len(coubs) : records[coubs[c]].Type # RecoubType
    /\ \A c, d \in 1..Len(coubs) : c < d => coubs[c] < coubs[d]
    /\ \A id \in 1..Len(records) :
         records[id].Type # RecoubType => \E c \in 1..Len(coubs) : coubs[c] = id
    /\ IsPrefix(prepared, coubs)
    /\ \A c \in 1..Len(task) : task[c] # "none" => c <= Len(prepared)
    /\ Len(task) = Len(coubs)
    /\ result = "nil" =>
         /\ prepared = coubs
         /\ \A c \in 1..Len(coubs) : task[c] = "done" /\ fetched[c]["file"] > 0

C5_Witness ==
  /\ file = "ok" /\ result = "nil"
  /\ Len(coubs) >= 2
  /\ \E j, k, l \in 1..Len(records) :
       /\ j < k /\ k < l
       /\ records[j].Type # RecoubType
       /\ records[k].Type = RecoubType
       /\ records[l].Type # RecoubType

\* C6: DownloadCoubData returns only when its three branches have finished,
\* and it returns nil.
C6_ReturnsAfterAllBranches ==
  dcPc = "returned" =>
    /\ \A b \in Groups : brPc[b] = "end"
    /\ task[1] = "done"

\* C7: ReadCoub returns nil only when every clip it submitted has finished
\* its download: DownloadCoubData has returned and each of its three groups
\* has made its fetches.
C7_CompletionAfterAllDownloads ==
  (mainPc = "returned" /\ result = "nil") =>
    \A c \in 1..Len(task) :
      /\ task[c] = "done"
      /\ fetched[c]["file"] = Len(DownloadFileVersionsPlan(taskDir[c], CoubAt(c)))
      /\ poolWG = 0

C7_Witness ==
  /\ mainPc = "returned" /\ result = "nil"
  /\ Len(task) = MaxClips
  /\ \E c \in 1..Len(task) : fetched[c]["frame"] = 1

C9_NoPathSharedByTwoClips ==
  \A w1, w2 \in Written : w1[1] = w2[1] => w1[2] = w2[2]

RECURSIVE CountNL(_)
CountNL(txt) ==
  IF txt = <<>> THEN 0 ELSE (IF Head(txt) = "\n" THEN 1 ELSE 0) + CountNL(Tail(txt))

RECURSIVE JoinTags(_, _)
JoinTags(tags, k) ==
  IF k > Len(tags) THEN <<>>
  ELSE tags[k] \o (IF k < Len(tags) THEN <<", ">> ELSE <<>>) \o JoinTags(tags, k + 1)

SummaryOf(coub) ==
  <<"Title: ">> \o coub.Title \o NL
  \o <<"Created At: ">> \o coub.CreatedAt \o NL
  \o <<"Duration: ", "12", ".", "35", "\n">>
  \o <<"Views: ", "10", "\n">>
  \o <<"Recoubs: ", "2", "\n">>
  \o <<"Source: ">> \o coub.ExternalDownload \o NL
  \o <<"Tags: ">> \o JoinTags(coub.Tags, 1) \o NL

\* C10: the summary file CreateCoubInfoFiles writes is seven lines, each
\* ended by a newline: Title, Created At, Duration, Views, Recoubs, Source,
\* Tags, the tags separated by ", ".
C10_SummaryIsSevenLines ==
  (lastPrep.pos > 0 /\ ~lastPrep.ioFailed) =>
    /\ CountNL(info) = 7
    /\ info[Len(info)] = "\n"
    /\ info = SummaryOf([CoubAt(lastPrep.pos) EXCEPT !.Title = TrimSpace(@)])

\* C11: counting submissions from one, after the 5th, 10th, ... submission
\* ReadCoub does not prepare or submit the next clip until every download
\* submitted so far has finished.
C11_WaitsAfterEveryFifthSubmission ==
  (~panicked /\ mainPc \in {"prepare", "submit"} /\ i > 0 /\ i % 5 = 0) =>
    \A c \in 1..i : task[c] = "done"

\* C12: apart from the log and the wait-group counters, no variable is
\* written by two tasks that can run at the same time: never are two tasks
\* both at a statement that writes the same variable.  The variables looked
\* at are DownloadCoubData's err (written by each branch's assignment and by
\* return nil) and the loop iteration's err of ReadCoub (written by the
\* preparation and by the iteration's goroutine).
C12_OnlyLogAndCountersAreShared ==
  /\ \A b1, b2 \in Groups : b1 # b2 => ~(brPc[b1] = "ret" /\ brPc[b2] = "ret")
  /\ \A b \in Groups : ~(brPc[b] = "ret" /\ dcPc = "wait" /\ wg = 0)
  /\ mainPc = "prepare" => task[i + 1] = "none"

IsFetch(e) == e[1] = "fetch"
FetchesOf(tr) == SelectSeq(tr, IsFetch)
Returned(b) == brPc[b] \notin {"idle", "run"}

\* C13: whatever its fetches answer, DownloadFileVersions makes exactly seven
\* fetches, one after the other, in the order video medium, video high,
\* video higher, audio high, audio medium, default share under the file name
\* of its URL, default share under "<title>.mp4"; a failed fetch never stops
\* it, and it returns nil.
C13_FileGroupMakesSevenFetches ==
  dcPc # "idle" =>
    LET plan == ThePlan("file")
        fv == CoubAt(1).FileVersions
        n == fetched[1]["file"]
    IN /\ [k \in 1..Len(plan) |-> plan[k].url]
            = <<fv.VideoMed, fv.VideoHigh, fv.VideoHigher, fv.AudioHigh, fv.AudioMed,
                fv.ShareDefault, fv.ShareDefault>>
       /\ plan[1].path = taskDir[1] \o <<"/", "med_1.mp4">>
       /\ plan[6].path = taskDir[1] \o <<"/", "share_1.mp4">>
       /\ plan[7].path = taskDir[1] \o <<"/">> \o CoubAt(1).Title \o <<".mp4">>
       /\ FetchesOf(trace["file"]) = [k \in 1..n |-> <<"fetch", k>>]
       /\ n <= 7
       /\ Returned("file") => (n = 7 /\ brRet["file"] = "nil")

C13_Witness ==
  /\ Returned("file") /\ allFailed["file"]
  /\ fetched[1]["file"] = 7
  /\ ~panicked

VersionSet(b) ==
  IF b = "image" THEN CoubAt(1).ImageVersions ELSE CoubAt(1).FirstFrameVersions

\* C14: DownloadImageVersions and DownloadFirstFrameVersions fetch, one after
\* the other and in the order of the version sequence, the URLs made by
\* putting each version in the place of the placeholder of the template, up
\* to and including the first fetch that fails; nothing is fetched after a
\* failed fetch, the group returns that fetch's error, and it returns nil
\* exactly when every version was fetched with success.
C14_VersionGroupsStopAtFirstFailure ==
  dcPc # "idle" =>
    \A b \in {"image", "frame"} :
      LET set == VersionSet(b)
          plan == ThePlan(b)
          n == fetched[1][b]
          fs == FetchesOf(trace[b])
          name == IF b = "image" THEN "_i1.jpg" ELSE "_f1.jpg"
      IN /\ Len(plan) = Len(set.Versions)
         /\ \A k \in 1..Len(plan) :
              /\ plan[k].url = <<"img", "/", "1", "/", set.Versions[k], name>>
              /\ plan[k].path = taskDir[1] \o <<"/", set.Versions[k], name>>
         /\ Len(fs) = n /\ n <= Len(plan)
         /\ \A k \in 1..n : fs[k][2] = k
         /\ \A k \in 1..n - 1 : fs[k][3]
         /\ (n >= 1 /\ ~fs[n][3]) => Returned(b)
         /\ Returned(b) =>
              /\ brRet[b] = "nil" <=> (n = Len(plan) /\ \A k \in 1..n : fs[k][3])
              /\ brRet[b] # "nil" => (n >= 1 /\ ~fs[n][3] /\ brRet[b] = GroupErr(b))

C14_Witness ==
  /\ Returned("image") /\ brRet["image"] = "errImage"
  /\ fetched[1]["image"] = 1 /\ Len(ThePlan("image")) >= 2
  /\ Returned("frame") /\ brRet["frame"] = "nil"
  /\ fetched[1]["frame"] = 2

\* C15: a clip's download is started only when the creation of its
\* directory and the writing of its metadata files have both succeeded, and
\* the clips are prepared and submitted in catalog order.
C15_PreparedBeforeDownloadStarts ==
  /\ IsPrefix(prepared, coubs)
  /\ \A c, d \in 1..Len(task) : (c < d /\ task[d] # "none") => task[c] # "none"
  /\ \A c \in 1..Len(task) :
       task[c] # "none" =>
         /\ c <= Len(prepared)
         /\ taskDir[c] \in dirs
         /\ c = lastPrep.pos => ~lastPrep.ioFailed

\* C16: within one asset group a pacing delay lies between every two
\* consecutive fetches: no fetch of a group is directly followed by the
\* group's next fetch.
C16_DelayBetweenConsecutiveFetches ==
  \A b \in Groups :
    \A k \in 1..Len(trace[b]) - 1 :
      IsFetch(trace[b][k]) => ~IsFetch(trace[b][k + 1])

\* C17: when ReadCoub has returned, with nil or with the error of a failed
\* preparation, no download it submitted is still running.
C17_NothingInFlightAfterReturn ==
  (mainPc = "returned" /\ ~panicked) => (InFlight = {} /\ poolWG = 0)

\* C18: the record DownloadCoubData is called with carries the trimmed title
\* the clip's directory was made from: the seventh fetch of its file group
\* writes "<trimmed title>.mp4" in that directory, also when the catalog
\* title has blanks around it.
C18_DownloadUsesTrimmedTitle ==
  \A c \in 1..Len(task) :
    LET trimmed == TrimSpace(records[coubs[c]].Title)
    IN task[c] # "none" =>
         /\ taskDir[c] = RootDir \o Slash \o trimmed
         /\ fetched[c]["file"] = 7 =>
              DownloadFileVersionsPlan(taskDir[c], CoubAt(c))[7].path
                = taskDir[c] \o Slash \o trimmed \o <<".mp4">>

\* C19: under every interleaving of the three branches of DownloadCoubData a
\* branch logs a group error exactly when its own group returned one, the
\* error it logs is the one its own group returned, and the value it reads
\* when logging is never nil.
C19_BranchLogsItsOwnGroupsError ==
  /\ ~panicked
  /\ \A b \in Groups :
       /\ logged[b] # "nil" => logged[b] = brRet[b]
       /\ brPc[b] = "use" => brRet[b] # "nil"
       /\ brPc[b] = "end" => (logged[b] # "nil" <=> brRet[b] # "nil")

\* C20: both wait-group counters are never negative.  ReadCoub's counter is
\* the number of downloads submitted and not finished, and a clip's
\* decrement comes only when its three branches have finished.
\* DownloadCoubData's counter is decremented once for each group function
\* that has returned, also one that returned on a failed fetch.
C20_CountersMatchOutstandingWork ==
  /\ poolWG >= 0 /\ wg >= 0
  /\ poolWG = Cardinality(InFlight)
  /\ dcPc # "idle" => wg = 3 - Cardinality({b \in Groups : Returned(b)})
  /\ \A c \in 1..Len(task) :
       task[c] = "done" => \A b \in Groups : brPc[b] = "end"

====
